---- MODULE Spec2Model ----
(***************************************************************************)
(* MoviWebApp: the Flask request handlers (app.py), the DataManager        *)
(* (data_manager.py) and the two tables User and Movie (models.py).        *)
(*                                                                         *)
(* Text is a sequence of one-character strings, so that strip(), slicing,  *)
(* isdigit(), int() and ORDER BY are computed and not assumed.  An         *)
(* optional value (Python None, a missing form field, a missing JSON key,  *)
(* a NULL column) is the empty set, a present value v is {v}.              *)
(*                                                                         *)
(* The store is SQLite as app.py configures it: no PRAGMA foreign_keys is  *)
(* issued, so the ForeignKey of Movie.user_id is declared, not enforced,   *)
(* and an INTEGER PRIMARY KEY without AUTOINCREMENT is max(rowid) + 1.     *)
(***************************************************************************)
EXTENDS Integers, Sequences, FiniteSets, TLC

VARIABLES users, movies, last, createdOwner

vars == <<users, movies, last, createdOwner>>

\* Bounds of the model: user ids and movie ids handed out.
MaxUsers == 2
MaxMovies == 2

---------------------------------------------------------------------------
\* Optional values.
None == {}
Some(x) == {x}
Get(o) == CHOOSE x \in o : TRUE

Max(S) == CHOOSE x \in S : \A y \in S : y <= x
Min2(a, b) == IF a <= b THEN a ELSE b

---------------------------------------------------------------------------
\* Python str operations used by the handlers.

Whitespace == {" ", "\t"}
DigitChars == {"0", "1", "2", "3", "4", "5", "6", "7", "8", "9"}

\* ord(c) for the characters of the model's alphabet.
Ord(c) ==
    CASE c = "\t" -> 9   [] c = " " -> 32
      [] c = "-" -> 45   [] c = "/" -> 47
      [] c = "0" -> 48   [] c = "1" -> 49  [] c = "2" -> 50  [] c = "3" -> 51
      [] c = "4" -> 52   [] c = "5" -> 53  [] c = "6" -> 54  [] c = "7" -> 55
      [] c = "8" -> 56   [] c = "9" -> 57
      [] c = "A" -> 65   [] c = "D" -> 68  [] c = "N" -> 78  [] c = "P" -> 80
      [] c = "T" -> 84   [] c = "a" -> 97  [] c = "b" -> 98  [] c = "x" -> 120

RECURSIVE LStrip(_)
LStrip(s) ==
    IF s # <<>> /\ Head(s) \in Whitespace THEN LStrip(Tail(s)) ELSE s

RECURSIVE RStrip(_)
RStrip(s) ==
    IF s # <<>> /\ s[Len(s)] \in Whitespace
    THEN RStrip(SubSeq(s, 1, Len(s) - 1))
    ELSE s

\* A mutant of Strip: the field is used as submitted.
NoStrip(s) == s

\* str.strip()
Strip(s) == RStrip(LStrip(s))

\* s[:4]
Prefix4(s) == SubSeq(s, 1, Min2(4, Len(s)))

\* str.isdigit(): non-empty and every character a digit.
IsDigit(s) == s # <<>> /\ \A i \in 1..Len(s) : s[i] \in DigitChars

\* int(s) for a string of digits.
RECURSIVE ToInt(_)
ToInt(s) ==
    IF s = <<>> THEN 0
    ELSE 10 * ToInt(SubSeq(s, 1, Len(s) - 1)) + (Ord(s[Len(s)]) - 48)

\* s < t as SQLite's BINARY collation orders text.
RECURSIVE StrLess(_, _)
StrLess(s, t) ==
    IF t = <<>> THEN FALSE
    ELSE IF s = <<>> THEN TRUE
    ELSE IF Ord(Head(s)) # Ord(Head(t)) THEN Ord(Head(s)) < Ord(Head(t))
    ELSE StrLess(Tail(s), Tail(t))

\* request.form.get(field, default): the form field is optional.
FormGet(field, default) == IF field = None THEN default ELSE Get(field)

\* request.form.get(field, type=int): None when missing or not an integer.
FormGetInt(field) ==
    IF field = None \/ ~IsDigit(Get(field)) THEN None ELSE Some(ToInt(Get(field)))

---------------------------------------------------------------------------
\* The tables (models.py).  users: id -> name.  movies: id -> row.

\* db.Column(db.Integer, primary_key=True): SQLite gives max(rowid) + 1.
NextId(tbl) == IF DOMAIN tbl = {} THEN 1 ELSE Max(DOMAIN tbl) + 1

\* ORDER BY name ASC over the rows scanned in rowid order.
RECURSIVE SortedInsert(_, _)
SortedInsert(row, seq) ==
    IF seq = <<>> THEN <<row>>
    ELSE IF StrLess(row.name, Head(seq).name) THEN <<row>> \o seq
    ELSE <<Head(seq)>> \o SortedInsert(row, Tail(seq))

RECURSIVE OrderByName(_)
OrderByName(rows) ==
    IF rows = {} THEN <<>>
    ELSE LET r == CHOOSE x \in rows : \A y \in rows : y.id <= x.id
         IN SortedInsert(r, OrderByName(rows \ {r}))

\* A mutant of CascadeMovies: the relationship without the cascade.
CascadeNothing(ms, user_id) == {}

\* relationship("Movie", cascade="all, delete-orphan"): the rows the ORM
\* deletes with a User are the Movies whose user_id is that user.
CascadeMovies(ms, user_id) == {m \in DOMAIN ms : ms[m].user_id = user_id}

---------------------------------------------------------------------------
\* DataManager (data_manager.py).

DmCreateUser(us, name) == us @@ (NextId(us) :> name)

\* A mutant of GetUsers: the rows in id order.
RECURSIVE RowsById(_)
RowsById(rows) ==
    IF rows = {} THEN <<>>
    ELSE LET r == CHOOSE x \in rows : \A y \in rows : y.id <= x.id
         IN Append(RowsById(rows \ {r}), r)
GetUsersById(us) == RowsById({[id |-> u, name |-> us[u]] : u \in DOMAIN us})

GetUsers(us) == OrderByName({[id |-> u, name |-> us[u]] : u \in DOMAIN us})

GetMovies(ms, user_id) ==
    OrderByName({[id |-> m, name |-> ms[m].name] :
                    m \in {x \in DOMAIN ms : ms[x].user_id = user_id}})

DmAddMovie(ms, movie) == ms @@ (NextId(ms) :> movie)

\* A mutant of DmUpdateMovie: a key is applied only when its value is
\* truthy (updated_fields.get(key) instead of key in updated_fields).
DmUpdateMovieTruthy(ms, movie_id, updated_fields) ==
    IF movie_id \notin DOMAIN ms THEN ms
    ELSE LET movie == ms[movie_id]
             has(k) == k \in DOMAIN updated_fields /\ updated_fields[k] # None
         IN [ms EXCEPT ![movie_id] =
               [name       |-> IF "name" \in DOMAIN updated_fields
                               THEN updated_fields.name ELSE movie.name,
                director   |-> IF has("director")
                               THEN updated_fields.director ELSE movie.director,
                year       |-> IF has("year")
                               THEN updated_fields.year ELSE movie.year,
                poster_url |-> IF has("poster_url")
                               THEN updated_fields.poster_url ELSE movie.poster_url,
                user_id    |-> movie.user_id]]

DmUpdateMovie(ms, movie_id, updated_fields) ==
    IF movie_id \notin DOMAIN ms THEN ms
    ELSE LET movie == ms[movie_id]
             has(k) == k \in DOMAIN updated_fields
         IN [ms EXCEPT ![movie_id] =
               [name       |-> IF has("name")
                               THEN updated_fields.name ELSE movie.name,
                director   |-> IF has("director")
                               THEN updated_fields.director ELSE movie.director,
                year       |-> IF has("year")
                               THEN updated_fields.year ELSE movie.year,
                poster_url |-> IF has("poster_url")
                               THEN updated_fields.poster_url ELSE movie.poster_url,
                user_id    |-> movie.user_id]]

\* What update_movie returns: the Movie (here its id) or None.
DmUpdateMovieRet(ms, movie_id) ==
    IF movie_id \in DOMAIN ms THEN Some(movie_id) ELSE None

DmDeleteMovie(ms, movie_id) == [m \in DOMAIN ms \ {movie_id} |-> ms[m]]

\* What delete_movie returns.
DmDeleteMovieRet(ms, movie_id) == movie_id \in DOMAIN ms

---------------------------------------------------------------------------
\* Enrichment (app.py).  env is what the call finds outside the program:
\* the OMDB_API_KEY variable, whether the network answers, and the JSON
\* the provider returns.  A JSON key the provider omits is None.

\* requests.get raises (connection error, timeout); nothing catches it.
FetchRaises(env) ==
    Strip(FormGet(env.api_key, <<>>)) # <<>> /\ env.net = "error"

\* fetch_movie_from_omdb, when requests.get returns: the dict or None.
FetchMovieFromOmdb(title, env) ==
    IF Strip(FormGet(env.api_key, <<>>)) = <<>> THEN None
    ELSE IF env.json.Response # Some("True") THEN None
    ELSE Some(env.json)

\* The path the call took, as the response records it.
FetchPath(env) ==
    IF Strip(FormGet(env.api_key, <<>>)) = <<>> THEN "nokey"
    ELSE IF env.net = "error" THEN "neterr"
    ELSE IF env.json.Response # Some("True") THEN "nomatch"
    ELSE "match"

\* int(data["Year"][:4]) if data.get("Year") and data["Year"][:4].isdigit()
YearOf(d) ==
    IF d.Year # None /\ Get(d.Year) # <<>> /\ IsDigit(Prefix4(Get(d.Year)))
    THEN Some(ToInt(Prefix4(Get(d.Year))))
    ELSE None

\* The Movie add_movie builds.
NewMovie(user_id, title, data) ==
    [name       |-> IF data # None THEN FormGet(Get(data).Title, title) ELSE title,
     director   |-> IF data # None THEN Get(data).Director ELSE None,
     year       |-> IF data # None THEN YearOf(Get(data)) ELSE None,
     poster_url |-> IF data # None THEN Get(data).Poster ELSE None,
     user_id    |-> user_id]

\* The payload update_movie builds.
UpdatePayload(new_title, data) ==
    IF data = None THEN [name |-> new_title]
    ELSE [name       |-> FormGet(Get(data).Title, new_title),
          director   |-> Get(data).Director,
          year       |-> YearOf(Get(data)),
          poster_url |-> Get(data).Poster]

\* The payload update_movie_codio builds.
CodioPayload(new_title, data) ==
    IF data = None THEN [name |-> new_title]
    ELSE [name       |-> FormGet(Get(data).Title, new_title),
          director   |-> Get(data).Director,
          year       |-> YearOf(Get(data)),
          poster_url |-> Get(data).Poster]

\* A mutant of CodioUpdate: the route writes its user_id to the movie.
CodioUpdateReowns(ms, user_id, movie_id, payload) ==
    LET ms2 == DmUpdateMovie(ms, movie_id, payload)
    IN IF movie_id \in DOMAIN ms2
       THEN [ms2 EXCEPT ![movie_id].user_id = user_id]
       ELSE ms2

\* dm.update_movie(movie_id, payload) as update_movie_codio calls it: the
\* route's user_id is not passed on.
CodioUpdate(ms, user_id, movie_id, payload) == DmUpdateMovie(ms, movie_id, payload)

---------------------------------------------------------------------------
\* What a request can carry, and what the provider can answer.

DigitChar(n) == CHOOSE c \in DigitChars : Ord(c) = 48 + n

UserIds == 1..MaxUsers
MovieIds == 1..MaxMovies

\* The form field "name": missing, empty, blank, or a name with padding.
NameForms ==
    {None, Some(<<>>), Some(<<" ", "\t">>), Some(<<" ", "a">>), Some(<<"b", " ">>)}

\* The form field "title".
TitleForms == {None, Some(<<>>), Some(<<"\t", " ">>), Some(<<" ", "a", " ">>)}

\* The hidden form field "user_id": missing, not a number, or a user's id.
UserIdForms ==
    {None, Some(<<"x">>)} \cup {Some(<<DigitChar(n)>>) : n \in UserIds}

JsonNotFound ==
    [Response |-> Some("False"), Title |-> None, Director |-> None,
     Year |-> None, Poster |-> None]

\* A match: Response is "True"; any of the other keys may be missing.
Json(title, director, year, poster) ==
    [Response |-> Some("True"), Title |-> title, Director |-> director,
     Year |-> year, Poster |-> poster]

JsonFull ==
    Json(Some(<<"T">>), Some(<<"D">>), Some(<<"2", "0", "1", "0", "-">>),
         Some(<<"P">>))

\* The Year strings a match can carry: missing, empty, a year, a year range,
\* fewer than four characters, and text that is no year.
Years ==
    {None, Some(<<>>), Some(<<"2", "0", "1", "0">>),
     Some(<<"2", "0", "1", "0", "-">>), Some(<<"2", "0", "1">>),
     Some(<<"2", "0", "x", "0">>), Some(<<"N", "/", "A">>)}

Env(api_key, net, json) == [api_key |-> api_key, net |-> net, json |-> json]

\* No key is configured (unset, or blank); the network fails; no match.
FailEnvs ==
    {Env(None, "ok", JsonNotFound), Env(Some(<<" ">>), "ok", JsonNotFound),
     Env(Some(<<"x">>), "error", JsonNotFound),
     Env(Some(<<"x">>), "ok", JsonNotFound)}

\* The environments of Spec: the failures and one full match.
Envs == FailEnvs \cup {Env(Some(<<"x">>), "ok", JsonFull)}

\* The environments of SpecOmdb: the failures and the matches with every
\* Year string, and with every subset of Title, Director and Poster left out.
OmdbEnvs ==
    FailEnvs
    \cup {Env(Some(<<"x">>), "ok", Json(Some(<<"T">>), Some(<<"D">>), y, Some(<<"P">>))) :
            y \in Years}
    \cup {Env(Some(<<"x">>), "ok", Json(t, d, Some(<<"2", "0", "1", "0">>), p)) :
            t \in {None, Some(<<"T">>)}, d \in {None, Some(<<"D">>)},
            p \in {None, Some(<<"P">>)}}

---------------------------------------------------------------------------
\* The response of the last request: which handler ran, whether it ended in
\* a redirect or in an unhandled exception, the view redirected to, the
\* path the enrichment call took ("none": not called), and, for a direct
\* call of the DataManager, what it returned.
Resp(h, st, view, f, r) ==
    [handler |-> h, status |-> st, view |-> view, fetch |-> f, ret |-> r]

Bool(b) == IF b THEN "true" ELSE "false"

\* createdOwner: for each stored movie, the user_id it was inserted with.
Owners(ms, new_user_id) ==
    [m \in DOMAIN ms |->
        IF m \in DOMAIN createdOwner /\ m \in DOMAIN movies
        THEN createdOwner[m] ELSE new_user_id]

Init ==
    /\ users = << >>
    /\ movies = << >>
    /\ createdOwner = << >>
    /\ last = Resp("none", "none", "none", "none", "none")

\* POST /users
CreateUser(nameForm) ==
    LET name == Strip(FormGet(nameForm, <<>>))
    IN /\ IF name # <<>>
          THEN /\ NextId(users) <= MaxUsers
               /\ users' = DmCreateUser(users, name)
          ELSE users' = users
       /\ last' = Resp("create_user", "redirect", "index", "none", "none")
       /\ UNCHANGED <<movies, createdOwner>>

\* POST /users/<user_id>/movies
AddMovie(user_id, titleForm, envs) ==
    LET title == Strip(FormGet(titleForm, <<>>))
    IN IF title = <<>>
       THEN /\ last' = Resp("add_movie", "redirect", "user_movies", "none", "none")
            /\ UNCHANGED <<users, movies, createdOwner>>
       ELSE \E env \in envs :
            IF FetchRaises(env)
            THEN /\ last' = Resp("add_movie", "error", "none", FetchPath(env), "none")
                 /\ UNCHANGED <<users, movies, createdOwner>>
            ELSE /\ NextId(movies) <= MaxMovies
                 /\ movies' = DmAddMovie(movies,
                                  NewMovie(user_id, title,
                                           FetchMovieFromOmdb(title, env)))
                 /\ createdOwner' = Owners(movies', user_id)
                 /\ last' = Resp("add_movie", "redirect", "user_movies",
                                 FetchPath(env), "none")
                 /\ UNCHANGED users

\* POST /movies/<movie_id>/delete.  url_for("user_movies", user_id=None)
\* has no value for the route's <int:user_id>: the build raises, after the
\* delete was committed.
DeleteMovie(movie_id, userIdForm) ==
    LET user_id == FormGetInt(userIdForm)
    IN /\ movies' = DmDeleteMovie(movies, movie_id)
       /\ createdOwner' = Owners(movies', 0)
       /\ last' = IF user_id = None
                  THEN Resp("delete_movie", "error", "none", "none", "none")
                  ELSE Resp("delete_movie", "redirect", "user_movies", "none", "none")
       /\ UNCHANGED users

\* POST /users/<user_id>/movies/<movie_id>/delete
DeleteMovieCodio(user_id, movie_id) ==
    /\ movies' = DmDeleteMovie(movies, movie_id)
    /\ createdOwner' = Owners(movies', 0)
    /\ last' = Resp("delete_movie_codio", "redirect", "user_movies", "none", "none")
    /\ UNCHANGED users

\* POST /movies/<movie_id>/update
UpdateMovie(movie_id, titleForm, envs) ==
    IF movie_id \notin DOMAIN movies
    THEN /\ last' = Resp("update_movie", "redirect", "index", "none", "none")
         /\ UNCHANGED <<users, movies, createdOwner>>
    ELSE LET new_title == Strip(FormGet(titleForm, <<>>))
         IN IF new_title = <<>>
            THEN /\ last' = Resp("update_movie", "redirect", "user_movies",
                                 "none", "none")
                 /\ UNCHANGED <<users, movies, createdOwner>>
            ELSE \E env \in envs :
                 IF FetchRaises(env)
                 THEN /\ last' = Resp("update_movie", "error", "none",
                                      FetchPath(env), "none")
                      /\ UNCHANGED <<users, movies, createdOwner>>
                 ELSE /\ movies' = DmUpdateMovie(movies, movie_id,
                                      UpdatePayload(new_title,
                                          FetchMovieFromOmdb(new_title, env)))
                      /\ last' = Resp("update_movie", "redirect", "user_movies",
                                      FetchPath(env), "none")
                      /\ UNCHANGED <<users, createdOwner>>

\* POST /users/<user_id>/movies/<movie_id>/update
UpdateMovieCodio(user_id, movie_id, titleForm, envs) ==
    LET new_title == Strip(FormGet(titleForm, <<>>))
    IN IF new_title = <<>>
       THEN /\ last' = Resp("update_movie_codio", "redirect", "user_movies",
                            "none", "none")
            /\ UNCHANGED <<users, movies, createdOwner>>
       ELSE \E env \in envs :
            IF FetchRaises(env)
            THEN /\ last' = Resp("update_movie_codio", "error", "none",
                                 FetchPath(env), "none")
                 /\ UNCHANGED <<users, movies, createdOwner>>
            ELSE /\ movies' = CodioUpdate(movies, user_id, movie_id,
                                  CodioPayload(new_title,
                                      FetchMovieFromOmdb(new_title, env)))
                 /\ last' = Resp("update_movie_codio", "redirect", "user_movies",
                                 FetchPath(env), "none")
                 /\ UNCHANGED <<users, createdOwner>>

Next ==
    \/ \E n \in NameForms : CreateUser(n)
    \/ \E u \in UserIds, t \in TitleForms : AddMovie(u, t, Envs)
    \/ \E m \in MovieIds, f \in UserIdForms : DeleteMovie(m, f)
    \/ \E u \in UserIds, m \in MovieIds : DeleteMovieCodio(u, m)
    \/ \E m \in MovieIds, t \in TitleForms : UpdateMovie(m, t, Envs)
    \/ \E u \in UserIds, m \in MovieIds, t \in TitleForms :
          UpdateMovieCodio(u, m, t, Envs)

\* The handlers of app.py, from the empty database.
Spec == Init /\ [][Next]_vars

\* The same handlers with everything the provider can answer.
NextOmdb ==
    \/ \E n \in NameForms : CreateUser(n)
    \/ \E u \in UserIds, t \in TitleForms : AddMovie(u, t, OmdbEnvs)
    \/ \E m \in MovieIds, f \in UserIdForms : DeleteMovie(m, f)
    \/ \E u \in UserIds, m \in MovieIds : DeleteMovieCodio(u, m)
    \/ \E m \in MovieIds, t \in TitleForms : UpdateMovie(m, t, OmdbEnvs)
    \/ \E u \in UserIds, m \in MovieIds, t \in TitleForms :
          UpdateMovieCodio(u, m, t, OmdbEnvs)

SpecOmdb == Init /\ [][NextOmdb]_vars

---------------------------------------------------------------------------
\* Deleting a User.  No handler of app.py deletes one; the operation is
\* the one the design describes, with the cascade models.py declares.

DeleteUser(user_id) ==
    IF user_id \notin DOMAIN users
    THEN /\ last' = Resp("delete_user", "redirect", "index", "none", "false")
         /\ UNCHANGED <<users, movies, createdOwner>>
    ELSE /\ users' = [u \in DOMAIN users \ {user_id} |-> users[u]]
         /\ movies' = [m \in DOMAIN movies \ CascadeMovies(movies, user_id) |->
                          movies[m]]
         /\ createdOwner' = Owners(movies', 0)
         /\ last' = Resp("delete_user", "redirect", "index", "none", "true")

NextCascade ==
    \/ \E n \in NameForms : CreateUser(n)
    \/ \E u \in UserIds, t \in TitleForms : AddMovie(u, t, Envs)
    \/ \E u \in UserIds, m \in MovieIds : DeleteMovieCodio(u, m)
    \/ \E u \in UserIds : DeleteUser(u)

\* The life of users and of the movies they own.
SpecCascade == Init /\ [][NextCascade]_vars

---------------------------------------------------------------------------
\* The DataManager called directly, with every payload update_movie can
\* be given, on a database that holds one user.

FieldKeys == {"name", "director", "year", "poster_url"}

\* Every dict over a subset of the four keys.  name is NOT NULL; the other
\* columns are nullable, and their keys may map to None.
Payloads ==
    {[k \in K |-> f[k]] :
        K \in SUBSET FieldKeys,
        f \in [name : {<<"b">>}, director : {None, Some(<<"D">>)},
               year : {None, Some(2010)}, poster_url : {None, Some(<<"P">>)}]}

\* The Movie objects add_movie is given.
DmMovies ==
    {NewMovie(u, <<"a">>, None) : u \in DOMAIN users}

InitDM ==
    /\ users = (1 :> <<"a">>)
    /\ movies = << >>
    /\ createdOwner = << >>
    /\ last = Resp("none", "none", "none", "none", "none")

DmAddMovieCall(movie) ==
    /\ NextId(movies) <= MaxMovies
    /\ movies' = DmAddMovie(movies, movie)
    /\ createdOwner' = Owners(movies', movie.user_id)
    /\ last' = Resp("dm_add_movie", "returned", "none", "none", "none")
    /\ UNCHANGED users

DmUpdateMovieCall(movie_id, updated_fields) ==
    /\ movies' = DmUpdateMovie(movies, movie_id, updated_fields)
    /\ last' = Resp("dm_update_movie", "returned", "none", "none",
                    Bool(DmUpdateMovieRet(movies, movie_id) # None))
    /\ UNCHANGED <<users, createdOwner>>

DmDeleteMovieCall(movie_id) ==
    /\ movies' = DmDeleteMovie(movies, movie_id)
    /\ createdOwner' = Owners(movies', 0)
    /\ last' = Resp("dm_delete_movie", "returned", "none", "none",
                    Bool(DmDeleteMovieRet(movies, movie_id)))
    /\ UNCHANGED users

NextDM ==
    \/ \E movie \in DmMovies : DmAddMovieCall(movie)
    \/ \E m \in MovieIds, f \in Payloads : DmUpdateMovieCall(m, f)
    \/ \E m \in MovieIds : DmDeleteMovieCall(m)

SpecDM == InitDM /\ [][NextDM]_vars

---------------------------------------------------------------------------
\* Vocabulary of the properties, stated without the operators above.

\* A form field that is missing, empty or only whitespace.
Blank(field) ==
    field = None \/ \A i \in 1..Len(Get(field)) : Get(field)[i] \in Whitespace

\* The four data columns of a Movie row.
Data(movie) ==
    [name |-> movie.name, director |-> movie.director, year |-> movie.year,
     poster_url |-> movie.poster_url]

\* ms2 is ms with exactly one row more, the row id.
AddsRow(ms, ms2, id) ==
    /\ id \notin DOMAIN ms
    /\ DOMAIN ms2 = DOMAIN ms \cup {id}
    /\ \A m \in DOMAIN ms : ms2[m] = ms[m]

\* ms2 is ms without the row id, and nothing else changed.
RemovesRow(ms, ms2, id) ==
    /\ id \in DOMAIN ms
    /\ DOMAIN ms2 = DOMAIN ms \ {id}
    /\ \A m \in DOMAIN ms2 : ms2[m] = ms[m]

DigitValue(c) ==
    CASE c = "0" -> 0 [] c = "1" -> 1 [] c = "2" -> 2 [] c = "3" -> 3
      [] c = "4" -> 4 [] c = "5" -> 5 [] c = "6" -> 6 [] c = "7" -> 7
      [] c = "8" -> 8 [] c = "9" -> 9

\* The year the design asks for: the first four characters when the string
\* has four and all are digits, otherwise unset.
FourDigitYear(y) ==
    IF y # None /\ Len(Get(y)) >= 4 /\ \A i \in 1..4 : Get(y)[i] \in DigitChars
    THEN Some(1000 * DigitValue(Get(y)[1]) + 100 * DigitValue(Get(y)[2])
              + 10 * DigitValue(Get(y)[3]) + DigitValue(Get(y)[4]))
    ELSE None

SortedByName(seq) ==
    \A i \in 1..(Len(seq) - 1) : ~StrLess(seq[i + 1].name, seq[i].name)

---------------------------------------------------------------------------
\* C1.  In every reachable state every stored Movie's user_id is the id of
\* a User that exists.  Refuted: add_movie never looks the user up, and the
\* store does not enforce the foreign key.
C1_NoOrphanMovies ==
    \A m \in DOMAIN movies : movies[m].user_id \in DOMAIN users

\* C2.  An add-movie request with a non-blank title whose enrichment fails
\* (no key, network error, no match) ends in a redirect and stores exactly
\* one new Movie: the trimmed title, director, year and poster_url unset.
\* Refuted: the network error is not caught.
C2_EnrichmentFailureStillStores ==
    [][\A u \in UserIds, t \in TitleForms :
         (/\ AddMovie(u, t, Envs)
          /\ ~Blank(t)
          /\ last'.fetch \in {"nokey", "neterr", "nomatch"})
         => /\ last'.status = "redirect"
            /\ \E id \in DOMAIN movies' :
                 /\ AddsRow(movies, movies', id)
                 /\ movies'[id] = [name |-> Strip(Get(t)), director |-> None,
                                   year |-> None, poster_url |-> None,
                                   user_id |-> u]]_vars

\* C3.  After an update with title T the movie's name, director, year and
\* poster_url are those of a movie created with T under the same outcome of
\* the enrichment, whatever the movie held before.  Refuted: without a
\* match the update writes the name only.
C3_UpdateEqualsCreate ==
    [][\A m \in MovieIds, t \in TitleForms :
         (/\ \/ UpdateMovie(m, t, OmdbEnvs)
             \/ \E u \in UserIds : UpdateMovieCodio(u, m, t, OmdbEnvs)
          /\ ~Blank(t)
          /\ m \in DOMAIN movies
          /\ last'.fetch \in {"nokey", "nomatch", "match"})
         => \E env \in OmdbEnvs :
              /\ FetchPath(env) = last'.fetch
              /\ Data(movies'[m]) =
                    Data(NewMovie(movies[m].user_id, Strip(Get(t)),
                                  FetchMovieFromOmdb(Strip(Get(t)), env)))]_vars

C5_DeleteAbsentIsNoOp ==
    [][\A m \in MovieIds :
         (\/ \E f \in UserIdForms : DeleteMovie(m, f)
          \/ \E u \in UserIds : DeleteMovieCodio(u, m))
         => /\ users' = users
            /\ IF m \in DOMAIN movies
               THEN DmDeleteMovieRet(movies, m) /\ RemovesRow(movies, movies', m)
               ELSE /\ ~DmDeleteMovieRet(movies, m)
                    /\ movies' = movies
                    /\ last'.status = "redirect"]_vars

\* C6.  A create-user, add-movie or update-movie request whose name or
\* title is missing, empty or only whitespace is redirected without effect:
\* no User or Movie changes and the enrichment is not called.
C6_BlankFieldNoEffect ==
    [][\/ /\ users' = users /\ movies' = movies
          /\ last'.status = "redirect" /\ last'.fetch = "none"
       \/ /\ last'.handler = "create_user"
          /\ \A n \in NameForms : ~(Blank(n) /\ CreateUser(n))
       \/ /\ last'.handler = "add_movie"
          /\ \A t \in TitleForms, u \in UserIds :
               ~(Blank(t) /\ AddMovie(u, t, Envs))
       \/ /\ last'.handler = "update_movie"
          /\ \A t \in TitleForms, m \in MovieIds :
               ~(Blank(t) /\ UpdateMovie(m, t, Envs))
       \/ /\ last'.handler = "update_movie_codio"
          /\ \A t \in TitleForms, u \in UserIds, m \in MovieIds :
               ~(Blank(t) /\ UpdateMovieCodio(u, m, t, Envs))
       \/ last'.handler \in {"delete_movie", "delete_movie_codio"}]_vars

\* A blank title reached a stored movie's update route: nothing was fetched.
C6_Witness ==
    /\ last.handler = "update_movie_codio"
    /\ last.status = "redirect"
    /\ last.fetch = "none"
    /\ DOMAIN movies # {}
    /\ DOMAIN users # {}

\* C7.  Deleting a User removes every Movie whose user_id is that user and
\* no Movie of another user; the user's movie list is empty afterwards.
C7_CascadeDelete ==
    [][\A u \in UserIds :
         (last'.handler = "delete_user" /\ u \in DOMAIN users /\ DeleteUser(u))
         => /\ u \notin DOMAIN users'
            /\ \A m \in DOMAIN movies :
                 IF movies[m].user_id = u
                 THEN m \notin DOMAIN movies'
                 ELSE m \in DOMAIN movies' /\ movies'[m] = movies[m]
            /\ DOMAIN movies' \subseteq DOMAIN movies
            /\ GetMovies(movies', u) = <<>>]_vars

\* A user was deleted, the first movie went with it, and the movie of a
\* user that still exists is stored.
C7_Witness ==
    /\ last.handler = "delete_user"
    /\ last.ret = "true"
    /\ DOMAIN movies = {2}
    /\ movies[2].user_id \in DOMAIN users

\* C8.  Creating a user with a name that is not blank adds exactly one User,
\* with an id no User has and the trimmed name, also when the name is
\* taken; get_users is one longer and sorted by name; the other Users and
\* all Movies are unchanged.
C8_CreateUser ==
    [][\A n \in NameForms :
         (last'.handler = "create_user" /\ ~Blank(n) /\ CreateUser(n))
         => /\ \E id \in DOMAIN users' :
                 /\ AddsRow(users, users', id)
                 /\ users'[id] = Strip(Get(n))
            /\ movies' = movies
            /\ Len(GetUsers(users')) = Len(GetUsers(users)) + 1
            /\ {r.id : r \in {GetUsers(users')[i] : i \in 1..Len(GetUsers(users'))}}
                 = DOMAIN users'
            /\ \A i \in 1..Len(GetUsers(users')) :
                 GetUsers(users')[i].name = users'[GetUsers(users')[i].id]
            /\ SortedByName(GetUsers(users'))]_vars

\* The second user was created with a name that sorts before the first's.
C8_Witness ==
    /\ last.handler = "create_user"
    /\ DOMAIN users = {1, 2}
    /\ users[1] = <<"b">>
    /\ users[2] = <<"a">>
    /\ GetUsers(users)[1].id = 2

\* C9.  On a match the stored year is set exactly when the Year string
\* begins with four digits, and is their value; director and poster are
\* copied when present and unset when missing.  Refuted: a Year of fewer
\* than four characters, all digits, is stored.
C9_FourDigitYear ==
    [][\A u \in UserIds, t \in TitleForms :
         (AddMovie(u, t, OmdbEnvs) /\ ~Blank(t) /\ last'.fetch = "match")
         => \E id \in DOMAIN movies', env \in OmdbEnvs :
              /\ FetchPath(env) = "match"
              /\ AddsRow(movies, movies', id)
              /\ movies'[id] = NewMovie(u, Strip(Get(t)), Some(env.json))
              /\ movies'[id].year = FourDigitYear(env.json.Year)
              /\ movies'[id].director = env.json.Director
              /\ movies'[id].poster_url = env.json.Poster]_vars

\* C10.  A Movie's owner never changes: every stored Movie has the user_id
\* it was inserted with, whatever routes were called with whatever user id.
C10_OwnerNeverChanges ==
    /\ DOMAIN createdOwner = DOMAIN movies
    /\ \A m \in DOMAIN movies : movies[m].user_id = createdOwner[m]

\* The user-scoped update route rewrote a movie from a match, and movies of
\* two owners are stored.
C10_Witness ==
    /\ last.handler = "update_movie_codio"
    /\ last.fetch = "match"
    /\ \E m, o \in DOMAIN movies :
         /\ movies[m].user_id # movies[o].user_id
         /\ movies[m].name = <<"T">>
         /\ movies[o].name = <<"T">>

====
